---- MODULE Spec2Model ----
(***************************************************************************)
(* Client-side orchestration of a Milvus vector store:                     *)
(*   src/index.py        milvus_connection, replace_index, main            *)
(*   src/query.py        milvus_connection, perform_search, main           *)
(*   src/db_insertion.py milvus_connection, insert_batch, main             *)
(*                                                                         *)
(* milvus_connection is a generator wrapped by contextlib.contextmanager.  *)
(* The generator is modelled statement by statement (connect, yield,       *)
(* except clause, finally clause) together with the protocol that          *)
(* contextlib runs around it (__enter__ = next, __exit__ = next or throw,  *)
(* "generator didn't stop" when the generator yields a second time).  The  *)
(* except clause runs within the step that raises into it; the disconnect  *)
(* of the finally clause is a step of its own.                             *)
(*                                                                         *)
(* src/db_insertion.py:31 dedents `finally:` to the column of the `for`,   *)
(* which Python rejects.  The two repairs that keep every statement are    *)
(* both modelled: fin = "attempt" (the finally clause belongs to the try   *)
(* inside the loop, as in index.py and query.py) and fin = "call" (the     *)
(* finally clause guards the whole loop).                                  *)
(***************************************************************************)
EXTENDS Integers, Sequences, FiniteSets, TLC

VARIABLES
    cn,       \* per process: the state of its milvus_connection generator
    handles,  \* pymilvus `connections`: the aliases that hold an open handle
    col,      \* the remote collection
    ri,       \* the running replace_index call
    mn,       \* the main program (index.py main / db_insertion.py main)
    wk        \* the pool's tasks (one insert_batch call per batch)

vars == <<cn, handles, col, ri, mn, wk>>

(***************************************************************************)
(* Bounds                                                                  *)
(***************************************************************************)
MaxRetries == 3

(***************************************************************************)
(* Program constants                                                       *)
(***************************************************************************)
DefaultRetries == 3

Main == 0 - 1

(***************************************************************************)
(* Resilient connector                                                     *)
(***************************************************************************)
MainAlias == <<"default">>

\* A slip: every worker uses the same alias.
WorkerAliasShared(start_idx) == <<"worker_", 0>>

\* connection_alias = f"worker_{start_idx}"
WorkerAlias(start_idx) == <<"worker_", start_idx>>

Alias(p) == IF p = Main THEN MainAlias ELSE WorkerAlias(p)

HasBreak(c) == c.variant = "db"

IdleConn ==
    [variant |-> "db", fin |-> "attempt", retries |-> DefaultRetries,
     attempt |-> 0, pc |-> "idle", phase |-> "enter", pend |-> "none",
     cause |-> "none", leave |-> FALSE, outcome |-> "none",
     connects |-> 0, succ |-> 0, sleeps |-> 0, entries |-> 0]

NewConn(v, f, r) ==
    [IdleConn EXCEPT !.variant = v, !.fin = f, !.retries = r, !.pc = "connect"]

\* The generator function returns: contextlib turns StopIteration into the
\* result of __enter__ / __exit__.
GenReturn(c) ==
    [c EXCEPT !.pc = "done",
              !.outcome = CASE c.phase = "enter" -> "DidntYield"
                            [] c.phase = "exit"  -> "Normal"
                            [] OTHER             -> "Suppressed"]

\* `for attempt in range(retries)` takes its next value, or the loop ends.
NextAttempt(c) ==
    IF c.attempt + 1 < c.retries
    THEN [c EXCEPT !.attempt = c.attempt + 1, !.pc = "connect"]
    ELSE IF c.fin = "call" THEN [c EXCEPT !.pc = "finally", !.leave = TRUE]
    ELSE GenReturn(c)

\* The generator reaches `yield`.
Yield(c) ==
    IF c.phase = "enter"
    THEN [c EXCEPT !.pc = "body", !.entries = c.entries + 1]
    ELSE [c EXCEPT !.pc = "suspended",
                   !.outcome = IF c.phase = "exit" THEN "DidntStop"
                               ELSE "DidntStopAfterThrow"]

\* A slip in the except clause: the retry delay is also slept before giving up.
ExceptClauseSleepsLast(c) ==
    LET s == [c EXCEPT !.sleeps = c.sleeps + 1] IN
    IF c.attempt = c.retries - 1
    THEN [s EXCEPT !.pend = "connerr", !.cause = c.pend, !.pc = "finally"]
    ELSE IF c.fin = "attempt" THEN [s EXCEPT !.pend = "none", !.pc = "finally"]
    ELSE NextAttempt([s EXCEPT !.pend = "none"])

\* `except Exception as e:` clause.
ExceptClause(c) ==
    IF c.attempt = c.retries - 1
    THEN [c EXCEPT !.pend = "connerr", !.cause = c.pend, !.pc = "finally"]
    ELSE LET s == [c EXCEPT !.pend = "none", !.sleeps = c.sleeps + 1]
         IN  IF c.fin = "attempt" THEN [s EXCEPT !.pc = "finally"]
             ELSE NextAttempt(s)

\* The with-block is left: res is "ok" (normal end, or `return` inside the
\* block), "exc" (an Exception, thrown into the generator at the yield and
\* caught by `except Exception`) or "base" (a BaseException that is not an
\* Exception, e.g. KeyboardInterrupt, which only the finally clause sees).
Resume(c, res) ==
    CASE res = "ok"  -> [c EXCEPT !.phase = "exit", !.pc = "finally",
                                  !.leave = HasBreak(c)]
      [] res = "exc" -> ExceptClause([c EXCEPT !.phase = "throw",
                                               !.pend = "body"])
      [] OTHER       -> [c EXCEPT !.phase = "throw", !.pend = "base",
                                  !.pc = "finally"]

\* What follows the finally clause.
AfterFinally(c) ==
    CASE c.pend = "connerr" -> [c EXCEPT !.pc = "done", !.outcome = "ConnError"]
      [] c.pend = "base"    -> [c EXCEPT !.pc = "done", !.outcome = "BaseError"]
      [] c.pend = "body"    -> [c EXCEPT !.pc = "done", !.outcome = "BodyError"]
      [] c.leave            -> GenReturn(c)
      [] c.fin = "call"     -> GenReturn(c)
      [] OTHER              -> NextAttempt(c)

\* `finally:` clause, after `connections.disconnect(alias=alias)`: an error of
\* the disconnect is swallowed by the bare `except: pass`, so the generator
\* goes on in the same way whether the disconnect raised or not.
FinallyClause(c) == AfterFinally(c)

Connect(p) ==
    /\ cn[p].pc = "connect"
    /\ \E ok \in BOOLEAN :
         LET c == [cn[p] EXCEPT !.connects = cn[p].connects + 1] IN
         IF ok
         THEN /\ handles' = handles \cup {Alias(p)}
              /\ cn' = [cn EXCEPT ![p] = Yield([c EXCEPT !.succ = c.succ + 1])]
         ELSE /\ handles' = handles
              /\ cn' = [cn EXCEPT ![p] =
                          ExceptClause([c EXCEPT !.pend = "connfail"])]

Finally(p) ==
    /\ cn[p].pc = "finally"
    /\ cn' = [cn EXCEPT ![p] = FinallyClause(cn[p])]
    /\ handles' = handles \ {Alias(p)}

\* A generator left suspended at `yield` is closed when it is collected:
\* GeneratorExit is raised at the yield, the finally clause runs.
GenClose(p) ==
    /\ cn[p].pc = "suspended"
    /\ cn' = [cn EXCEPT ![p] = [cn[p] EXCEPT !.pc = "closed"]]
    /\ handles' = handles \ {Alias(p)}


(***************************************************************************)
(* A caller with an arbitrary body: `with milvus_connection(...): body`    *)
(***************************************************************************)
\* fields "id" (INT64, primary) and "vector" (FLOAT_VECTOR, dim=768)
FixedSchema == <<"id:INT64:primary", "vector:FLOAT_VECTOR:768">>

OtherSchema == <<"id:INT64:primary", "vector:FLOAT_VECTOR:384">>

NoCol == [exists |-> FALSE, loaded |-> FALSE, indexes |-> {}, rows |-> {},
          schema |-> <<>>]

NoRi == [pc |-> "off"]

NoMn == [pc |-> "off"]

NoWk == <<>>

Variants == {<<"index", "attempt">>, <<"query", "attempt">>,
             <<"db", "attempt">>, <<"db", "call">>}

InitConn ==
    /\ \E v \in Variants, r \in 1..MaxRetries :
         cn = [p \in {Main} |-> NewConn(v[1], v[2], r)]
    /\ handles = {}
    /\ col = NoCol
    /\ ri = NoRi
    /\ mn = NoMn
    /\ wk = NoWk

CallerBody(p) ==
    /\ cn[p].pc = "body"
    /\ \E res \in {"ok", "exc", "base"} :
         cn' = [cn EXCEPT ![p] = Resume(cn[p], res)]
    /\ handles' = handles

NextConn ==
    \/ Connect(Main) /\ UNCHANGED <<col, ri, mn, wk>>
    \/ CallerBody(Main) /\ UNCHANGED <<col, ri, mn, wk>>
    \/ Finally(Main) /\ UNCHANGED <<col, ri, mn, wk>>
    \/ GenClose(Main) /\ UNCHANGED <<col, ri, mn, wk>>

SpecConn == InitConn /\ [][NextConn]_vars

SourceValid(c) == c.variant \in {"index", "query"}

Finished(c) == c.outcome # "none"

\* C1: when every connect attempt of a call fails, exactly `retries` connect
\* attempts are made, the retry delay is slept only between two attempts
\* (retries - 1 times, never after the last attempt), the call ends with the
\* "Failed to connect" error whose cause is the last connect failure, and the
\* caller's body is never entered.
C1_RetryBound ==
    \A p \in DOMAIN cn :
      LET c == cn[p] IN
      c.succ = 0 =>
        /\ c.entries = 0
        /\ c.connects <= c.retries
        /\ c.sleeps <= c.retries - 1
        /\ c.sleeps <= c.connects
        /\ c.connects <= c.sleeps + 1
        /\ c.pc \in {"idle", "connect", "finally", "done"}
        /\ c.pc = "connect" => c.sleeps = c.connects
        /\ c.pc = "done" =>
             /\ c.connects = c.retries
             /\ c.sleeps = c.retries - 1
             /\ c.outcome = "ConnError"
             /\ c.cause = "connfail"

C1_Witness ==
    \E p \in DOMAIN cn :
      /\ cn[p].pc = "done" /\ cn[p].succ = 0
      /\ cn[p].retries = DefaultRetries /\ cn[p].connects = DefaultRetries
      /\ cn[p].outcome = "ConnError"

\* C2: once a withConnection call has finished (normally or with an error),
\* no connection handle for its alias is open, and no connect is attempted
\* while a handle of the alias is still open (index.py / query.py connector).
C2_NoLeak ==
    \A p \in DOMAIN cn :
      SourceValid(cn[p]) =>
        /\ Finished(cn[p]) => Alias(p) \notin handles
        /\ cn[p].pc = "connect" => Alias(p) \notin handles

\* C3: the connector yields to the body at most once; after the body has
\* completed normally no further connect attempt is made and the with-block
\* returns normally (index.py / query.py connector).
C3_YieldOnce ==
    \A p \in DOMAIN cn :
      SourceValid(cn[p]) =>
        /\ cn[p].entries <= 1
        /\ cn[p].phase = "exit" =>
             /\ cn[p].pc # "connect"
             /\ cn[p].outcome \in {"none", "Normal"}

\* C4: when the body raises, no further connect attempt is made, the caller
\* observes the body's own error, and the "Failed to connect" error is raised
\* only when all connect attempts failed (index.py / query.py connector).
C4_PrimaryError ==
    \A p \in DOMAIN cn :
      SourceValid(cn[p]) =>
        /\ cn[p].phase = "throw" =>
             /\ cn[p].pc # "connect"
             /\ cn[p].outcome \in {"none", "BodyError", "BaseError"}
        /\ cn[p].outcome = "ConnError" =>
             cn[p].succ = 0 /\ cn[p].connects = cn[p].retries

(***************************************************************************)
(* Index manager: replace_index (index.py)                                 *)
(***************************************************************************)
DefaultSpec == "IVF_FLAT/COSINE/nlist=768"

OtherSpec == "HNSW/L2"

IndexSpecs == {DefaultSpec, OtherSpec}

\* replace_index(collection_name, index_params=None) is entered.
RiCall(spec, calls, snap, rets) ==
    [pc |-> "open", spec |-> IF spec = "None" THEN DefaultSpec ELSE spec,
     ret |-> "none", failed |-> "none", done |-> <<>>,
     calls |-> calls, snap |-> snap, rets |-> rets]

\* `except Exception as e: print(...); return False`
RiExcept(step) ==
    [ri EXCEPT !.pc = "returned", !.ret = "False", !.failed = step,
               !.rets = Append(ri.rets, "False")]

\* collection = Collection(collection_name)
RiOpen ==
    /\ ri.pc = "open"
    /\ \E fail \in BOOLEAN :
         ri' = IF fail \/ ~col.exists THEN RiExcept("open")
               ELSE [ri EXCEPT !.pc = "release"]
    /\ UNCHANGED col

\* A slip: the collection is not released before the index is dropped.
RiReleaseSkipped ==
    /\ ri.pc = "release"
    /\ \E fail \in BOOLEAN :
         IF fail THEN ri' = RiExcept("release") /\ UNCHANGED col
         ELSE /\ ri' = [ri EXCEPT !.pc = "drop"]
              /\ UNCHANGED col

\* if collection.is_loaded(): collection.release()
RiRelease ==
    /\ ri.pc = "release"
    /\ \E fail \in BOOLEAN :
         IF fail THEN ri' = RiExcept("release") /\ UNCHANGED col
         ELSE IF col.loaded
         THEN /\ col' = [col EXCEPT !.loaded = FALSE]
              /\ ri' = [ri EXCEPT !.pc = "drop", !.done = Append(ri.done, "release")]
         ELSE /\ ri' = [ri EXCEPT !.pc = "drop"]
              /\ UNCHANGED col

\* if collection.has_index(): collection.drop_index()
RiDrop ==
    /\ ri.pc = "drop"
    /\ \E fail \in BOOLEAN :
         IF fail THEN ri' = RiExcept("drop") /\ UNCHANGED col
         ELSE IF col.indexes # {}
         THEN /\ col' = [col EXCEPT !.indexes = {}]
              /\ ri' = [ri EXCEPT !.pc = "create", !.done = Append(ri.done, "drop")]
         ELSE /\ ri' = [ri EXCEPT !.pc = "create"]
              /\ UNCHANGED col

\* collection.create_index(field_name="vector", index_params=index_params)
RiCreate ==
    /\ ri.pc = "create"
    /\ \E fail \in BOOLEAN :
         IF fail THEN ri' = RiExcept("create") /\ UNCHANGED col
         ELSE /\ col' = [col EXCEPT !.indexes = col.indexes \cup {ri.spec}]
              /\ ri' = [ri EXCEPT !.pc = "load", !.done = Append(ri.done, "create")]

\* A slip: the collection is not loaded back before returning True.
RiLoadForgotten ==
    /\ ri.pc = "load"
    /\ \E fail \in BOOLEAN :
         IF fail THEN ri' = RiExcept("load") /\ UNCHANGED col
         ELSE /\ col' = col
              /\ ri' = [ri EXCEPT !.pc = "returned", !.ret = "True",
                                  !.rets = Append(ri.rets, "True")]

\* collection.load(); return True
RiLoad ==
    /\ ri.pc = "load"
    /\ \E fail \in BOOLEAN :
         IF fail THEN ri' = RiExcept("load") /\ UNCHANGED col
         ELSE /\ col' = [col EXCEPT !.loaded = TRUE]
              /\ ri' = [ri EXCEPT !.pc = "returned", !.ret = "True",
                                  !.done = Append(ri.done, "load"),
                                  !.rets = Append(ri.rets, "True")]

(***************************************************************************)
(* replace_index called twice in succession with the same spec             *)
(***************************************************************************)
ColStates ==
    [exists : {TRUE}, loaded : BOOLEAN, indexes : {{}, {DefaultSpec}, {OtherSpec}},
     rows : {{}}, schema : {FixedSchema}]

InitReplace ==
    /\ col \in ColStates
    /\ \E spec \in IndexSpecs \cup {"None"} : ri = RiCall(spec, 1, col, <<>>)
    /\ cn = [p \in {Main} |-> IdleConn]
    /\ handles = {}
    /\ mn = NoMn
    /\ wk = NoWk

RiCallAgain ==
    /\ ri.pc = "returned"
    /\ ri.calls = 1
    /\ ri' = RiCall(ri.spec, 2, col, ri.rets)
    /\ UNCHANGED col

NextReplace ==
    \/ RiOpen /\ UNCHANGED <<cn, handles, mn, wk>>
    \/ RiRelease /\ UNCHANGED <<cn, handles, mn, wk>>
    \/ RiDrop /\ UNCHANGED <<cn, handles, mn, wk>>
    \/ RiCreate /\ UNCHANGED <<cn, handles, mn, wk>>
    \/ RiLoad /\ UNCHANGED <<cn, handles, mn, wk>>
    \/ RiCallAgain /\ UNCHANGED <<cn, handles, mn, wk>>

SpecReplace == InitReplace /\ [][NextReplace]_vars

(***************************************************************************)
(* index.py main                                                           *)
(***************************************************************************)
InitIndex ==
    /\ col \in ColStates \cup {NoCol}
    /\ ri = NoRi
    /\ cn = [p \in {Main} |-> NewConn("index", "attempt", DefaultRetries)]
    /\ handles = {}
    /\ mn = [pc |-> "has_collection", printed |-> "none"]
    /\ wk = NoWk

\* if not utility.has_collection(collection_name): raise Exception(...)
IxHasCollection ==
    /\ cn[Main].pc = "body"
    /\ mn.pc = "has_collection"
    /\ \E fail \in BOOLEAN :
         IF fail \/ ~col.exists
         THEN /\ cn' = [cn EXCEPT ![Main] = Resume(cn[Main], "exc")]
              /\ mn' = [mn EXCEPT !.pc = "left"]
              /\ UNCHANGED ri
         ELSE /\ mn' = [mn EXCEPT !.pc = "replace"]
              /\ ri' = RiCall(DefaultSpec, 1, col, <<>>)
              /\ UNCHANGED cn
    /\ UNCHANGED <<handles, col, wk>>

\* success = replace_index(...); if success: print(...) else: print(...)
\* and the with-block ends.
IxReport ==
    /\ cn[Main].pc = "body"
    /\ mn.pc = "replace"
    /\ ri.pc = "returned"
    /\ mn' = [mn EXCEPT !.pc = "left",
                        !.printed = IF ri.ret = "True"
                                    THEN "Index replacement completed successfully"
                                    ELSE "Index replacement failed"]
    /\ cn' = [cn EXCEPT ![Main] = Resume(cn[Main], "ok")]
    /\ UNCHANGED <<handles, col, ri, wk>>

NextIndex ==
    \/ Connect(Main) /\ UNCHANGED <<col, ri, mn, wk>>
    \/ Finally(Main) /\ UNCHANGED <<col, ri, mn, wk>>
    \/ GenClose(Main) /\ UNCHANGED <<col, ri, mn, wk>>
    \/ IxHasCollection
    \/ RiOpen /\ UNCHANGED <<cn, handles, mn, wk>>
    \/ RiRelease /\ UNCHANGED <<cn, handles, mn, wk>>
    \/ RiDrop /\ UNCHANGED <<cn, handles, mn, wk>>
    \/ RiCreate /\ UNCHANGED <<cn, handles, mn, wk>>
    \/ RiLoad /\ UNCHANGED <<cn, handles, mn, wk>>
    \/ IxReport

SpecIndex == InitIndex /\ [][NextIndex]_vars

\* index.py main has ended: the with-statement has returned or raised (main
\* re-raises whatever reaches it).
IxEnded == mn.pc = "left" /\ Finished(cn[Main])

IxRaised == IxEnded /\ cn[Main].outcome # "Normal"

StepOrder == <<"open", "release", "drop", "create", "load">>

StepNo(step) == CHOOSE i \in 1..Len(StepOrder) : StepOrder[i] = step

\* C8: starting from any collection state, when no step fails, two calls of
\* replace_index in succession with the same spec both return True and end
\* in the state the first call ended in: exactly the index of that spec,
\* collection loaded.
C8_Idempotent ==
    (ri.pc = "returned" /\ ri.failed = "none" /\ "False" \notin {ri.rets[i] : i \in DOMAIN ri.rets}) =>
        /\ ri.ret = "True"
        /\ col.indexes = {ri.spec}
        /\ col.loaded
        /\ ri.calls = 2 =>
             /\ col = ri.snap
             /\ ri.rets = <<"True", "True">>

C8_Witness ==
    /\ ri.pc = "returned" /\ ri.calls = 2 /\ ri.rets = <<"True", "True">>
    /\ ri.done = <<"release", "drop", "create", "load">>
    /\ col = ri.snap

\* C9: when a step of replace_index fails no later step is executed and
\* replace_index returns False for that step, and index.py main then ends
\* with an error instead of ending normally.
C9_FailsLoudly ==
    /\ ri.pc = "returned" /\ ri.failed # "none" =>
         /\ ri.ret = "False"
         /\ \A i \in DOMAIN ri.done : StepNo(ri.done[i]) < StepNo(ri.failed)
    /\ (IxEnded /\ ri.pc = "returned" /\ ri.ret = "False") => IxRaised

(***************************************************************************)
(* Parallel ingestion pipeline: db_insertion.py main and insert_batch      *)
(***************************************************************************)
Min(a, b) == IF a < b THEN a ELSE b

\* A slip: the end of the last batch is not clamped to the dataset length.
BatchEndUnclamped(start_idx, batch_size, total_size) == start_idx + batch_size

\* end_idx = min(start_idx + batch_size, total_size)
BatchEnd(start_idx, batch_size, total_size) ==
    Min(start_idx + batch_size, total_size)

\* chunk_id[start_idx:end_idx] / corpus_embedding[start_idx:end_idx]: a slice
\* is clamped to the length of the sliced sequence.
SliceLen(len, start_idx, end_idx) ==
    IF Min(end_idx, len) > start_idx THEN Min(end_idx, len) - start_idx ELSE 0

RECURSIVE PrepareFrom(_, _, _, _)
\* for start_idx in range(0, total_size, batch_size): batches.append(...)
PrepareFrom(start_idx, batch_size, total_size, nVecs) ==
    IF start_idx >= total_size THEN <<>>
    ELSE LET end_idx == BatchEnd(start_idx, batch_size, total_size) IN
         <<[start |-> start_idx, end |-> end_idx,
            nids |-> SliceLen(total_size, start_idx, end_idx),
            nvecs |-> SliceLen(nVecs, start_idx, end_idx)]>>
         \o PrepareFrom(start_idx + batch_size, batch_size, total_size, nVecs)

PrepareBatches(batch_size, total_size, nVecs) ==
    PrepareFrom(0, batch_size, total_size, nVecs)

\* The dataset positions a batch carries (position i holds chunk_id[i]).
BatchIds(b) == {i \in b.start .. b.end - 1 : i < b.start + b.nids}

Starts(batches) == {batches[k].start : k \in DOMAIN batches}

BatchAt(batches, start_idx) ==
    batches[CHOOSE k \in DOMAIN batches : batches[k].start = start_idx]

PoolCap == 4

\* A slip: one pool process per CPU, without the cap.
NProcessesUncapped(cpus) == cpus

\* n_processes = min(4, cpu_count())
NProcesses(cpus) == Min(PoolCap, cpus)

NewTask == [st |-> "pending", res |-> "none", msg |-> "none",
            inserts |-> 0, committed |-> FALSE]

\* Prepare batches (lines 93-104) and hand them to the pool (lines 108-109).
DbPrepare ==
    /\ cn[Main].pc = "body"
    /\ mn.pc = "prepare"
    /\ LET bs == PrepareBatches(mn.batch_size, mn.nIds, mn.nVecs) IN
       /\ mn' = [mn EXCEPT !.pc = "pool", !.batches = bs,
                           !.n_processes = NProcesses(mn.cpus)]
       /\ wk' = [b \in Starts(bs) |-> NewTask]
       /\ cn' = [p \in {Main} \cup Starts(bs) |->
                   IF p = Main THEN cn[Main] ELSE IdleConn]
    /\ UNCHANGED <<handles, col, ri>>

(***************************************************************************)
(* The batch partition, on its own                                         *)
(***************************************************************************)
MaxLen == 10

MaxBatch == 5

NoBatches == <<>>

MainState(n, m, bsz, cpus, pc) ==
    [pc |-> pc, nIds |-> n, nVecs |-> m, batch_size |-> bsz, cpus |-> cpus,
     n_processes |-> 0, batches |-> NoBatches, results |-> <<>>,
     accounted |-> FALSE, success_count |-> 0, printed |-> {},
     raised |-> "none", setup |-> "none"]

\* create_collection(name): Collection(name=name, schema=schema)
FreshCol == [exists |-> TRUE, loaded |-> FALSE, indexes |-> {}, rows |-> {},
             schema |-> FixedSchema]

InBody(c) == [c EXCEPT !.pc = "body", !.connects = 1, !.succ = 1, !.entries = 1]

InitBatch ==
    /\ \E n \in 0..MaxLen, bsz \in 1..MaxBatch :
         mn = MainState(n, n, bsz, 1, "prepare")
    /\ cn = [p \in {Main} |-> InBody(NewConn("db", "attempt", DefaultRetries))]
    /\ handles = {MainAlias}
    /\ col = FreshCol
    /\ ri = NoRi
    /\ wk = NoWk

NextBatch == DbPrepare

SpecBatch == InitBatch /\ [][NextBatch]_vars

Prepared == mn.pc \notin {"off", "setup", "prepare"}

Covering(i) == {k \in DOMAIN mn.batches : i \in BatchIds(mn.batches[k])}

\* C5: the batches are the consecutive ranges [k*batchSize,
\* min((k+1)*batchSize, N)): non-empty, of size batchSize except possibly the
\* last, pairwise disjoint, with union [0, N): every position is in exactly
\* one batch.
C5_Partition ==
    Prepared =>
      LET bs == mn.batches
          N == mn.nIds
          B == mn.batch_size
      IN
      /\ Len(bs) * B >= N
      /\ (Len(bs) - 1) * B < N \/ (N = 0 /\ Len(bs) = 0)
      /\ \A k \in DOMAIN bs :
           /\ bs[k].start = (k - 1) * B
           /\ bs[k].end = Min(k * B, N)
           /\ bs[k].start < bs[k].end
           /\ BatchIds(bs[k]) = bs[k].start .. bs[k].end - 1
           /\ k < Len(bs) => bs[k].end - bs[k].start = B
           /\ bs[k].end - bs[k].start <= B
      /\ \A j, k \in DOMAIN bs :
           j # k => BatchIds(bs[j]) \cap BatchIds(bs[k]) = {}
      /\ UNION {BatchIds(bs[k]) : k \in DOMAIN bs} = 0 .. N - 1
      /\ \A i \in 0 .. N - 1 : Cardinality(Covering(i)) = 1

C5_Witness ==
    /\ Prepared
    /\ mn.nIds = 4 /\ mn.batch_size = 2
    /\ Len(mn.batches) = 2
    /\ mn.batches[1].start = 0 /\ mn.batches[1].end = 2
    /\ mn.batches[2].start = 2 /\ mn.batches[2].end = 4

(***************************************************************************)
(* The ingestion run                                                       *)
(***************************************************************************)
MaxN == 2

MaxBatchSize == 2

MaxCpus == 2

OldCol == [exists |-> TRUE, loaded |-> TRUE, indexes |-> {DefaultSpec},
           rows |-> {0}, schema |-> FixedSchema]

\* The run finds the collection of an earlier run. A run that finds no
\* collection is started in SpecSetup; after setup it differs from this one
\* only in mn.setup.
InitIngest ==
    /\ \E n \in 0..MaxN, m \in 0..MaxN + 1, bsz \in 1..MaxBatchSize, cpus \in 1..MaxCpus :
         /\ m \in {n - 1, n, n + 1}
         /\ mn = MainState(n, m, bsz, cpus, "setup")
    /\ \E f \in {"attempt", "call"} :
         cn = [p \in {Main} |-> NewConn("db", f, DefaultRetries)]
    /\ handles = {}
    /\ col = OldCol
    /\ ri = NoRi
    /\ wk = NoWk

\* An exception leaves main's with-block.
MainRaises(what) ==
    /\ cn' = [cn EXCEPT ![Main] = Resume(cn[Main], "exc")]
    /\ mn' = [mn EXCEPT !.pc = "left", !.raised = what]

\* A slip: a collection that exists is kept as it is.
DbSetupKeeps ==
    /\ cn[Main].pc = "body"
    /\ mn.pc = "setup"
    /\ \E fail \in BOOLEAN :
         IF fail THEN MainRaises("setup") /\ UNCHANGED col
         ELSE /\ col' = IF col.exists THEN col ELSE FreshCol
              /\ mn' = [mn EXCEPT !.pc = "prepare",
                                  !.setup = IF col.exists THEN "recreated"
                                            ELSE "created"]
              /\ UNCHANGED cn
    /\ UNCHANGED <<handles, ri, wk>>

\* if not utility.has_collection(name): create_collection(name)
\* else: utility.drop_collection(name); create_collection(name)
\* mn.setup is the message printed: "Creating new collection" or
\* "Collection exists, recreating for fresh start".
DbSetup ==
    /\ cn[Main].pc = "body"
    /\ mn.pc = "setup"
    /\ \E fail \in BOOLEAN :
         IF fail THEN MainRaises("setup") /\ UNCHANGED col
         ELSE /\ col' = FreshCol
              /\ mn' = [mn EXCEPT !.pc = "prepare",
                                  !.setup = IF col.exists THEN "recreated"
                                            ELSE "created"]
              /\ UNCHANGED cn
    /\ UNCHANGED <<handles, ri, wk>>

Running == {b \in DOMAIN wk : wk[b].st = "running"}

\* A pool process takes the next task: insert_batch(args) starts and enters
\* `with milvus_connection(alias=connection_alias)`.
WkStart(b) ==
    /\ mn.pc = "pool"
    /\ wk[b].st = "pending"
    /\ Cardinality(Running) < mn.n_processes
    /\ wk' = [wk EXCEPT ![b].st = "running"]
    /\ cn' = [cn EXCEPT ![b] = NewConn("db", cn[Main].fin, DefaultRetries)]
    /\ UNCHANGED <<handles, col, ri, mn>>

\* A slip: an insert that failed is issued a second time.
WkBodyInsertsAgain(b) ==
    /\ cn[b].pc = "body"
    /\ LET bt == BatchAt(mn.batches, b) IN
       \E r \in {"ok", "insert_fails", "open_fails"} :
         IF r = "ok" /\ col.exists /\ bt.nids = bt.nvecs
         THEN /\ col' = [col EXCEPT !.rows = col.rows \cup BatchIds(bt)]
              /\ wk' = [wk EXCEPT ![b].inserts = wk[b].inserts + 1,
                                  ![b].committed = TRUE]
              /\ cn' = [cn EXCEPT ![b] = Resume(cn[b], "ok")]
         ELSE /\ col' = col
              /\ wk' = [wk EXCEPT ![b].inserts =
                          IF r = "open_fails" THEN wk[b].inserts
                          ELSE wk[b].inserts + 2]
              /\ cn' = [cn EXCEPT ![b] = Resume(cn[b], "exc")]
    /\ UNCHANGED <<handles, ri, mn>>

\* collection = Collection(name=name); collection.insert([ids, embeddings]);
\* return True, None
WkBody(b) ==
    /\ cn[b].pc = "body"
    /\ LET bt == BatchAt(mn.batches, b) IN
       \E r \in {"ok", "insert_fails", "open_fails"} :
         IF r = "ok" /\ col.exists /\ bt.nids = bt.nvecs
         THEN /\ col' = [col EXCEPT !.rows = col.rows \cup BatchIds(bt)]
              /\ wk' = [wk EXCEPT ![b].inserts = wk[b].inserts + 1,
                                  ![b].committed = TRUE]
              /\ cn' = [cn EXCEPT ![b] = Resume(cn[b], "ok")]
         ELSE /\ col' = col
              /\ wk' = [wk EXCEPT ![b].inserts =
                          IF r = "open_fails" THEN wk[b].inserts
                          ELSE wk[b].inserts + 1]
              /\ cn' = [cn EXCEPT ![b] = Resume(cn[b], "exc")]
    /\ UNCHANGED <<handles, ri, mn>>

\* error_msg = f"Error inserting batch {start_idx}:{end_idx}: {str(e)}"
ErrorMsg(bt, e) == [start |-> bt.start, end |-> bt.end, cause |-> e]

\* A slip: the except branch reports success as well.
TaskResultAlwaysTrue(c, bt) == [res |-> "True", msg |-> "None"]

\* What insert_batch returns, given how its with-statement ended.
TaskResult(c, bt) ==
    CASE c.outcome = "Normal"     -> [res |-> "True", msg |-> "None"]
      [] c.outcome = "Suppressed" -> [res |-> "None", msg |-> "None"]
      [] OTHER                    -> [res |-> "False",
                                      msg |-> ErrorMsg(bt, c.outcome)]

\* insert_batch has left `except Exception as e`: the exception, and with it
\* a generator still suspended at `yield`, is released (the generator is
\* closed, its finally clause disconnects); of the connector only the way
\* the with-statement ended remains.
Returned(c) ==
    [IdleConn EXCEPT !.fin = c.fin, !.pc = "done", !.outcome = c.outcome]

\* insert_batch returns; the pool stores the result of the task.
WkReturn(b) ==
    /\ wk[b].st = "running"
    /\ Finished(cn[b])
    /\ LET r == TaskResult(cn[b], BatchAt(mn.batches, b)) IN
       wk' = [wk EXCEPT ![b].st = "done", ![b].res = r.res, ![b].msg = r.msg]
    /\ cn' = [cn EXCEPT ![b] = Returned(cn[b])]
    /\ handles' = IF cn[b].pc = "suspended" THEN handles \ {Alias(b)}
                  ELSE handles
    /\ UNCHANGED <<col, ri, mn>>

RECURSIVE CountTrue(_)
\* sum(1 for success, _ in results if success)
CountTrue(results) ==
    IF results = <<>> THEN 0
    ELSE (IF Head(results).res = "True" THEN 1 ELSE 0) + CountTrue(Tail(results))

\* A slip: every result is counted.
CountAll(results) == Len(results)

SuccessCount(results) == CountTrue(results)

\* for success, error in results: if not success: print(error)
FailedErrors(results) ==
    {results[k].msg : k \in {j \in DOMAIN results : results[j].res # "True"}}

\* pool.map returns the results in the order of the batches.
MapResults == [k \in DOMAIN mn.batches |->
                 [res |-> wk[mn.batches[k].start].res,
                  msg |-> wk[mn.batches[k].start].msg]]

\* A slip: the results are counted as soon as one task has returned.
DbAccountEarly ==
    /\ cn[Main].pc = "body"
    /\ mn.pc = "pool"
    /\ \E b \in DOMAIN wk : wk[b].st = "done"
    /\ LET results == MapResults
           success_count == SuccessCount(results)
       IN
       IF success_count < Len(mn.batches)
       THEN /\ mn' = [mn EXCEPT !.pc = "left", !.results = results,
                                !.accounted = TRUE,
                                !.success_count = success_count,
                                !.printed = FailedErrors(results),
                                !.raised = "Some batches failed to insert"]
            /\ cn' = [cn EXCEPT ![Main] = Resume(cn[Main], "exc")]
       ELSE /\ mn' = [mn EXCEPT !.pc = "index", !.results = results,
                                !.accounted = TRUE,
                                !.success_count = success_count]
            /\ UNCHANGED cn
    /\ UNCHANGED <<handles, col, ri, wk>>

\* results = pool.map(insert_batch, batches) has returned; lines 111-120.
DbAccount ==
    /\ cn[Main].pc = "body"
    /\ mn.pc = "pool"
    /\ \A b \in DOMAIN wk : wk[b].st = "done"
    /\ LET results == MapResults
           success_count == SuccessCount(results)
       IN
       IF success_count < Len(mn.batches)
       THEN /\ mn' = [mn EXCEPT !.pc = "left", !.results = results,
                                !.accounted = TRUE,
                                !.success_count = success_count,
                                !.printed = FailedErrors(results),
                                !.raised = "Some batches failed to insert"]
            /\ cn' = [cn EXCEPT ![Main] = Resume(cn[Main], "exc")]
       ELSE /\ mn' = [mn EXCEPT !.pc = "index", !.results = results,
                                !.accounted = TRUE,
                                !.success_count = success_count]
            /\ UNCHANGED cn
    /\ UNCHANGED <<handles, col, ri, wk>>

\* if collection.has_index(): collection.release(); collection.drop_index()
DbDropIndex ==
    /\ cn[Main].pc = "body"
    /\ mn.pc = "index"
    /\ \E fail \in BOOLEAN :
         IF fail THEN MainRaises("has_index/release/drop_index") /\ UNCHANGED col
         ELSE /\ col' = IF col.indexes # {}
                        THEN [col EXCEPT !.loaded = FALSE, !.indexes = {}]
                        ELSE col
              /\ mn' = [mn EXCEPT !.pc = "create_index"]
              /\ UNCHANGED cn
    /\ UNCHANGED <<handles, ri, wk>>

\* A slip: the index is created without waiting for the pool.
DbCreateIndexEarly ==
    /\ cn[Main].pc = "body"
    /\ mn.pc \in {"pool", "create_index"}
    /\ \E fail \in BOOLEAN :
         IF fail THEN MainRaises("create_index") /\ UNCHANGED col
         ELSE /\ col' = [col EXCEPT !.indexes = col.indexes \cup {DefaultSpec}]
              /\ mn' = [mn EXCEPT !.pc = "load"]
              /\ UNCHANGED cn
    /\ UNCHANGED <<handles, ri, wk>>

\* collection.create_index(field_name="vector", index_params=index_params)
DbCreateIndex ==
    /\ cn[Main].pc = "body"
    /\ mn.pc = "create_index"
    /\ \E fail \in BOOLEAN :
         IF fail THEN MainRaises("create_index") /\ UNCHANGED col
         ELSE /\ col' = [col EXCEPT !.indexes = col.indexes \cup {DefaultSpec}]
              /\ mn' = [mn EXCEPT !.pc = "load"]
              /\ UNCHANGED cn
    /\ UNCHANGED <<handles, ri, wk>>

\* collection.load(); the with-block ends.
DbLoad ==
    /\ cn[Main].pc = "body"
    /\ mn.pc = "load"
    /\ \E fail \in BOOLEAN :
         IF fail THEN MainRaises("load") /\ UNCHANGED col
         ELSE /\ col' = [col EXCEPT !.loaded = TRUE]
              /\ mn' = [mn EXCEPT !.pc = "left"]
              /\ cn' = [cn EXCEPT ![Main] = Resume(cn[Main], "ok")]
    /\ UNCHANGED <<handles, ri, wk>>

NextIngest ==
    \/ \E p \in DOMAIN cn : Connect(p) /\ UNCHANGED <<col, ri, mn, wk>>
    \/ \E p \in DOMAIN cn : Finally(p) /\ UNCHANGED <<col, ri, mn, wk>>
    \/ GenClose(Main) /\ UNCHANGED <<col, ri, mn, wk>>
    \/ DbSetup
    \/ DbPrepare
    \/ \E b \in DOMAIN wk : WkStart(b)
    \/ \E b \in DOMAIN wk : WkBody(b)
    \/ \E b \in DOMAIN wk : WkReturn(b)
    \/ DbAccount
    \/ DbDropIndex
    \/ DbCreateIndex
    \/ DbLoad

SpecIngest == InitIngest /\ [][NextIngest]_vars

AllDone == Prepared /\ \A b \in DOMAIN wk : wk[b].st = "done"

IdsOf(b) == BatchIds(BatchAt(mn.batches, b))

Failed == {b \in DOMAIN wk : wk[b].res # "True"}

BatchesFailed == mn.raised = "Some batches failed to insert"

\* C6: once all workers have completed, a batch is reported successful
\* exactly when its ids were committed to the store by its insert call; what
\* a worker has committed stays in the store in every later state, also
\* after the run has failed because another batch failed.
C6_ReportMatchesStore ==
    /\ AllDone =>
         \A b \in DOMAIN wk :
           /\ wk[b].res = "True" <=> wk[b].committed
           /\ wk[b].res = "True" <=> IdsOf(b) \subseteq col.rows
           /\ wk[b].res # "True" => IdsOf(b) \cap col.rows = {}
    /\ \A b \in DOMAIN wk : wk[b].committed => IdsOf(b) \subseteq col.rows

C6_Witness ==
    /\ BatchesFailed
    /\ Finished(cn[Main])
    /\ \E b \in DOMAIN wk : wk[b].res = "True" /\ IdsOf(b) \subseteq col.rows
    /\ \E b \in DOMAIN wk : wk[b].res = "False" /\ wk[b].inserts = 1

\* C7: after all workers have completed, success_count is the number of
\* batches whose worker reported success, the insert operation fails exactly
\* when at least one batch failed, and then the error message (which names
\* the range) of every failed batch, and of no other batch, is reported.
C7_Accounting ==
    mn.accounted =>
      /\ mn.success_count = Cardinality(DOMAIN wk \ Failed)
      /\ BatchesFailed <=> Failed # {}
      /\ mn.printed = {wk[b].msg : b \in Failed}
      /\ Cardinality(mn.printed) = Cardinality(Failed)
      /\ \A b \in Failed :
           /\ wk[b].msg.start = BatchAt(mn.batches, b).start
           /\ wk[b].msg.end = BatchAt(mn.batches, b).end

C7_Witness ==
    /\ mn.accounted
    /\ Len(mn.batches) = 2
    /\ mn.success_count = 1
    /\ BatchesFailed
    /\ Cardinality(mn.printed) = 1

\* C10: when the id sequence and the vector sequence differ in length, a
\* precondition violation is reported before any batch is dispatched: no
\* task is started and no insert call is issued.
C10_Precondition ==
    mn.nIds # mn.nVecs =>
      /\ \A b \in DOMAIN wk : wk[b].st = "pending" /\ wk[b].inserts = 0
      /\ Prepared => mn.raised # "none"

(***************************************************************************)
(* Batched search and aggregation: perform_search (query.py)               *)
(***************************************************************************)
MaxQueries == 2

MaxSearchBatch == 2

MaxTopK == 2

ChunkIds == {10, 11, 12}

Sims == {8, 9}

\* corpus_df: the rows (chunk_id, cid) of the corpus table, in file order.
\* Chunk 10 and chunk 11 share a parent, chunk 11 has two, chunk 12 none.
CorpusTable == <<[chunk_id |-> 10, cid |-> 100],
                 [chunk_id |-> 11, cid |-> 100],
                 [chunk_id |-> 11, cid |-> 200]>>

Hit == [id : ChunkIds, distance : Sims]

\* What collection.search may return for one query with limit=top_k: up to
\* top_k hits with distinct ids, ordered by decreasing similarity.
HitLists(top_k) ==
    {h \in UNION {[1..n -> Hit] : n \in 0..top_k} :
       /\ \A a, b \in DOMAIN h : a # b => h[a].id # h[b].id
       /\ \A a, b \in DOMAIN h : a < b => h[a].distance >= h[b].distance}

\* chunk_ids = [id for id, _ in list_index]
HitIds(result) == {result[k].id : k \in DOMAIN result}

RECURSIVE CidColumn(_, _)
\* corpus_df[corpus_df["chunk_id"].isin(chunk_ids)]["cid"].tolist()
CidColumn(table, chunk_ids) ==
    IF table = <<>> THEN <<>>
    ELSE (IF Head(table).chunk_id \in chunk_ids THEN <<Head(table).cid>>
          ELSE <<>>) \o CidColumn(Tail(table), chunk_ids)

Elems(seq) == {seq[k] : k \in DOMAIN seq}

\* list(set(...)): the elements once each, in the set's iteration order (a
\* small set of small ints iterates by slot, and the slot of i is i mod 8).
ListOfSet(S) ==
    CHOOSE o \in [1..Cardinality(S) -> S] :
      \A a, b \in DOMAIN o : a < b => o[a] % 8 < o[b] % 8

\* A slip: the cid column is not passed through set().
CorpusCidNoSet(result) == CidColumn(CorpusTable, HitIds(result))

\* corpus_cid = list(set(corpus_df[...]["cid"].tolist()))
CorpusCid(result) == ListOfSet(Elems(CidColumn(CorpusTable, HitIds(result))))

\* "cosine": [dist for _, dist in list_index]
Cosine(result) == [k \in DOMAIN result |-> result[k].distance]

\* A slip: the offset of the batch is not added.
QidInBatch(i, j) == j

\* "qid": i + j
Qid(i, j) == i + j

\* dictionary = {"qid": ..., "cid": ..., "cosine": ...}
Dictionary(i, j, result) ==
    [qid |-> Qid(i, j), cid |-> CorpusCid(result), cosine |-> Cosine(result)]

SearchState(n, bsz, k) ==
    [pc |-> "search", nQueries |-> n, batch_size |-> bsz, top_k |-> k,
     i |-> 0, qid_cid |-> <<>>, raw |-> <<>>]

InitSearch ==
    /\ \E n \in 0..MaxQueries, bsz \in 1..MaxSearchBatch, k \in 1..MaxTopK :
         mn = SearchState(n, bsz, k)
    /\ cn = [p \in {Main} |-> InBody(NewConn("query", "attempt", DefaultRetries))]
    /\ handles = {MainAlias}
    /\ col = [exists |-> TRUE, loaded |-> TRUE, indexes |-> {DefaultSpec},
              schema |-> FixedSchema,
              rows |-> ChunkIds]
    /\ ri = NoRi
    /\ wk = NoWk

\* One turn of `for i in range(0, len(question_embedding), batch_size)`:
\* collection.search on question_embedding[i:i+batch_size], then one
\* dictionary per result.
SearchBatch ==
    /\ mn.pc = "search"
    /\ mn.i < mn.nQueries
    /\ LET blen == SliceLen(mn.nQueries, mn.i, mn.i + mn.batch_size) IN
       \E fail \in BOOLEAN :
         IF fail THEN mn' = [mn EXCEPT !.pc = "raised"]
         ELSE \E results \in [1..blen -> HitLists(mn.top_k)] :
                mn' = [mn EXCEPT !.i = mn.i + mn.batch_size,
                                 !.qid_cid = mn.qid_cid \o
                                    [j \in 1..blen |->
                                       Dictionary(mn.i, j - 1, results[j])],
                                 !.raw = mn.raw \o results]
    /\ UNCHANGED <<cn, handles, col, ri, wk>>

\* return qid_cid
SearchReturn ==
    /\ mn.pc = "search"
    /\ mn.i >= mn.nQueries
    /\ mn' = [mn EXCEPT !.pc = "returned"]
    /\ UNCHANGED <<cn, handles, col, ri, wk>>

NextSearch == SearchBatch \/ SearchReturn

SpecSearch == InitSearch /\ [][NextSearch]_vars

\* C11: for N query vectors the search returns exactly N results, the k-th
\* of them (counting from 0) with qid = k, which is offset-of-its-batch plus
\* position-in-batch: strictly ascending 0..N-1; N = 0 returns the empty list.
C11_QueryIndex ==
    /\ \A k \in DOMAIN mn.qid_cid : mn.qid_cid[k].qid = k - 1
    /\ Len(mn.qid_cid) = Min(mn.i, mn.nQueries)
    /\ mn.pc = "returned" => Len(mn.qid_cid) = mn.nQueries

C11_Witness ==
    /\ mn.pc = "returned"
    /\ mn.nQueries = 2 /\ mn.batch_size = 1
    /\ mn.qid_cid[2].qid = 1

ParentsOf(result) ==
    {c \in {100, 200} :
       \E k \in DOMAIN result, r \in DOMAIN CorpusTable :
         CorpusTable[r].chunk_id = result[k].id /\ CorpusTable[r].cid = c}

\* C12: the cid of a result holds, once each, exactly the parent ids that the
\* corpus table gives to at least one hit id of the query - the same ids for
\* two hit lists that are permutations of each other; cosine holds the
\* similarity of every hit in hit order, one entry per hit; an empty hit
\* list gives an empty cid and an empty cosine.
C12_Aggregation ==
    /\ Len(mn.raw) = Len(mn.qid_cid)
    /\ \A q \in DOMAIN mn.qid_cid :
         LET d == mn.qid_cid[q]
             h == mn.raw[q]
         IN
         /\ Elems(d.cid) = ParentsOf(h)
         /\ Len(d.cid) = Cardinality(ParentsOf(h))
         /\ Len(d.cosine) = Len(h)
         /\ \A k \in DOMAIN h : d.cosine[k] = h[k].distance
         /\ h = <<>> => d.cid = <<>> /\ d.cosine = <<>>
    /\ \A q1, q2 \in DOMAIN mn.qid_cid :
         (Len(mn.raw[q1]) = Len(mn.raw[q2]) /\ Elems(mn.raw[q1]) = Elems(mn.raw[q2]))
           => Elems(mn.qid_cid[q1].cid) = Elems(mn.qid_cid[q2].cid)

C12_Witness ==
    /\ mn.pc = "returned"
    /\ Len(mn.raw) = 2
    /\ Len(mn.raw[1]) = 2
    /\ mn.raw[1] # mn.raw[2] /\ Elems(mn.raw[1]) = Elems(mn.raw[2])
    /\ mn.raw[1][1].id = 10 /\ mn.raw[1][2].id = 11
    /\ Len(mn.qid_cid[1].cid) = 2 /\ Len(mn.qid_cid[1].cosine) = 2
    /\ mn.qid_cid[1].cosine = <<9, 9>>

(***************************************************************************)
(* Collection setup in the ingestion main (db_insertion.py, lines 83-91)   *)
(***************************************************************************)
\* What the store may hold under the name before the run.
OldCols ==
    [exists : {TRUE}, loaded : BOOLEAN, indexes : {{}, {DefaultSpec}},
     rows : SUBSET (0..1), schema : {FixedSchema, OtherSchema}]

InitSetup ==
    /\ \E n \in 0..MaxN : mn = MainState(n, n, 1, 1, "setup")
    /\ \E f \in {"attempt", "call"} :
         cn = [p \in {Main} |-> NewConn("db", f, DefaultRetries)]
    /\ handles = {}
    /\ col \in {NoCol} \cup OldCols
    /\ ri = NoRi
    /\ wk = NoWk

NextSetup ==
    \/ Connect(Main) /\ UNCHANGED <<col, ri, mn, wk>>
    \/ Finally(Main) /\ UNCHANGED <<col, ri, mn, wk>>
    \/ GenClose(Main) /\ UNCHANGED <<col, ri, mn, wk>>
    \/ DbSetup

SpecSetup == InitSetup /\ [][NextSetup]_vars

\* main() takes no argument and reads no option: the caller has no way to
\* request a fresh start, or to decline one.
FreshStartRequested == FALSE

C14_InsertOnce ==
    \A b \in DOMAIN wk :
      /\ wk[b].inserts <= 1
      /\ wk[b].committed => wk[b].inserts = 1
      /\ wk[b].st = "pending" => wk[b].inserts = 0
      /\ (wk[b].st = "running" /\ wk[b].inserts = 1) => cn[b].pc # "body"

\* The insert of a batch has failed, the connector has caught the error and
\* connected again, and the insert has not been issued a second time.
C14_Witness ==
    \E b \in DOMAIN wk :
      /\ wk[b].st = "running"
      /\ wk[b].inserts = 1
      /\ ~wk[b].committed
      /\ cn[b].connects >= 2

(***************************************************************************)
(* The index lifecycle: replace_index, and the index step of the ingestion *)
(* main (db_insertion.py, lines 122-140)                                   *)
(***************************************************************************)
\* Either replace_index is called (twice) on any collection state, or an
\* ingestion run with one pool process and a single batch is started.
InitLifecycle ==
    \/ InitReplace
    \/ /\ InitIngest
       /\ mn.cpus = 1
       /\ mn.nIds = mn.nVecs
       /\ mn.batch_size = MaxBatchSize

NextLifecycle == NextReplace \/ NextIngest

SpecLifecycle == InitLifecycle /\ [][NextLifecycle]_vars

\* The store loads a collection only when it has an index.
LoadedHasIndex(c) == c.loaded => c.indexes # {}

Increasing(done) ==
    \A i, j \in DOMAIN done : i < j => StepNo(done[i]) < StepNo(done[j])

\* C15: in every state reached during replace_index, and during the index
\* step of the ingestion main, the collection has at most one index, the
\* index is dropped only while the collection is not loaded, and the
\* collection (entered in a state in which it is loaded only with an index)
\* is never loaded without an index; the steps are issued in the order
\* release (if it was loaded), drop (if it had an index), create, load.
C15_IndexLifecycle ==
    /\ Cardinality(col.indexes) <= 1
    /\ ri.pc # "off" =>
         /\ ri.pc = "drop" => ~col.loaded
         /\ ("drop" \in Elems(ri.done) /\ "create" \notin Elems(ri.done)) =>
              (~col.loaded /\ col.indexes = {})
         /\ LoadedHasIndex(ri.snap) => LoadedHasIndex(col)
         /\ Increasing(ri.done)
         /\ "release" \in Elems(ri.done) => ri.snap.loaded
         /\ "drop" \in Elems(ri.done) => ri.snap.indexes # {}
         /\ ri.pc \in {"create", "load"} =>
              /\ ri.snap.loaded <=> "release" \in Elems(ri.done)
              /\ ri.snap.indexes # {} <=> "drop" \in Elems(ri.done)
         /\ ri.ret = "True" =>
              /\ Len(ri.done) >= 2
              /\ SubSeq(ri.done, Len(ri.done) - 1, Len(ri.done)) = <<"create", "load">>
    /\ mn.pc # "off" =>
         /\ LoadedHasIndex(col)
         /\ mn.pc = "create_index" => (~col.loaded /\ col.indexes = {})
         /\ mn.pc = "load" => (~col.loaded /\ col.indexes = {DefaultSpec})

\* replace_index has replaced an index of another spec on a loaded
\* collection, issuing all four steps.
C15_Witness ==
    /\ ri.pc = "returned" /\ ri.calls = 1 /\ ri.ret = "True"
    /\ ri.snap.loaded /\ ri.snap.indexes = {OtherSpec}
    /\ ri.done = <<"release", "drop", "create", "load">>
    /\ col.loaded /\ col.indexes = {DefaultSpec}

(***************************************************************************)
(* The join of the pool: results = pool.map(insert_batch, batches)         *)
(***************************************************************************)
\* A step of some pool process.
PoolStep ==
    \E b \in DOMAIN wk :
      \/ WkStart(b)
      \/ Connect(b) /\ UNCHANGED <<col, ri, mn, wk>>
      \/ WkBody(b)
      \/ Finally(b) /\ UNCHANGED <<col, ri, mn, wk>>
      \/ WkReturn(b)

IsReport(t) ==
    \/ t.res = "True" /\ t.msg = "None"
    \/ t.res = "False" /\ DOMAIN t.msg = {"start", "end", "cause"}

\* C16: under every interleaving of the workers each dispatched batch
\* produces one (success, error) report; success counting and failure
\* reporting start only after every batch has reported; the counted outcome
\* is a function of the reports of the batches, taken in batch order, not of
\* the order of completion; and while tasks are left some worker can take a
\* step, and once all have returned the accounting can start.
C16_Join ==
    /\ \A b \in DOMAIN wk :
         /\ wk[b].st = "done" => IsReport(wk[b])
         /\ wk[b].st # "done" => (wk[b].res = "none" /\ wk[b].msg = "none")
    /\ (mn.pc # "off" /\ mn.pc # "setup") =>
         /\ (mn.accounted \/ mn.success_count > 0 \/ mn.printed # {}
               \/ BatchesFailed \/ mn.pc \in {"index", "create_index", "load"}) =>
              (AllDone /\ mn.accounted)
         /\ mn.accounted =>
              /\ Len(mn.results) = Len(mn.batches)
              /\ \A k \in DOMAIN mn.batches :
                   /\ mn.results[k].res = wk[mn.batches[k].start].res
                   /\ mn.results[k].msg = wk[mn.batches[k].start].msg
              /\ mn.success_count =
                   Cardinality({b \in DOMAIN wk : wk[b].res = "True"})
         /\ (mn.pc = "pool" /\ ~AllDone) => ENABLED PoolStep
         /\ (mn.pc = "pool" /\ AllDone) => ENABLED DbAccount

\* Two batches were inserted by two pool processes, the first failed and the
\* second succeeded, and the results have been counted.
C16_Witness ==
    /\ mn.accounted
    /\ mn.n_processes = 2
    /\ Len(mn.results) = 2
    /\ mn.results[1].res = "False"
    /\ mn.results[2].res = "True"
    /\ mn.success_count = 1

(***************************************************************************)
(* Connection aliases of the workers                                       *)
(***************************************************************************)
\* The with-body of process p is running on the connection p has opened.
InWithBody(p) == cn[p].pc = "body"

\* C17: two workers use different connection aliases, and no worker uses
\* the alias of the setup connection, so no worker opens or closes the
\* handle of another process: whoever is inside its with-block still has
\* its handle registered, whatever the other processes have done meanwhile,
\* and only aliases of processes of this run are ever registered.
C17_DistinctAliases ==
    /\ \A a, b \in DOMAIN wk : a # b => Alias(a) # Alias(b)
    /\ \A b \in DOMAIN wk : Alias(b) # MainAlias
    /\ \A p \in DOMAIN cn : InWithBody(p) => Alias(p) \in handles
    /\ handles \subseteq {Alias(p) : p \in DOMAIN cn}
    /\ \A b \in DOMAIN wk : wk[b].st = "pending" => Alias(b) \notin handles

\* Two workers are inside their with-blocks at the same time, each with its
\* own handle, next to the handle of the setup connection.
C17_Witness ==
    \E a, b \in DOMAIN wk :
      /\ a # b
      /\ InWithBody(a) /\ InWithBody(b) /\ InWithBody(Main)
      /\ {Alias(a), Alias(b), MainAlias} \subseteq handles
      /\ Cardinality(handles) = 3

(***************************************************************************)
(* Phases of the ingestion run                                             *)
(***************************************************************************)
\* The batch inserts whose task has started and not yet returned.
InFlight == {b \in DOMAIN wk : wk[b].st = "running"}

\* C18: collection setup has completed before the first batch is
\* dispatched, and no release, drop-index, create-index or load of the
\* collection starts while a batch insert is in flight: while a task is
\* pending or running main is waiting in pool.map and the collection is
\* as setup created it (apart from the rows inserted), without index and
\* not loaded.
C18_Phases ==
    mn.pc # "off" =>
      /\ mn.pc \in {"setup", "prepare"} => DOMAIN wk = {}
      /\ (\E b \in DOMAIN wk : wk[b].st # "pending") =>
           /\ mn.setup \in {"created", "recreated"}
           /\ col.exists /\ col.schema = FixedSchema
      /\ (\E b \in DOMAIN wk : wk[b].st # "done") =>
           /\ mn.pc \in {"pool", "left"}
           /\ mn.pc = "left" => (mn.raised # "none" /\ InFlight = {})
           /\ col.indexes = {} /\ ~col.loaded
      /\ mn.pc \in {"index", "create_index", "load"} =>
           /\ mn.setup \in {"created", "recreated"}
           /\ \A b \in DOMAIN wk : wk[b].st = "done"
      /\ (col.indexes # {} /\ mn.setup # "none") => InFlight = {}

\* Both batches have been inserted and have reported, and only now the
\* index is about to be created.
C18_Witness ==
    /\ mn.pc = "create_index"
    /\ mn.setup = "recreated"
    /\ Len(mn.batches) = 2
    /\ \A b \in DOMAIN wk : wk[b].st = "done" /\ wk[b].inserts = 1
    /\ col.rows = 0..1
    /\ col.indexes = {} /\ ~col.loaded

(***************************************************************************)
(* The pool with more batches than processes                               *)
(***************************************************************************)
\* One batch more than the pool can ever run at once.
PoolBatches == PoolCap + 1

\* main has set the collection up and is about to prepare PoolBatches
\* batches of one row each, on a machine with fewer CPUs than the cap, or
\* more.
InitPool ==
    /\ \E cpus \in {1, PoolCap + 1} :
         mn = [MainState(PoolBatches, PoolBatches, 1, cpus, "prepare")
                 EXCEPT !.setup = "created"]
    /\ \E f \in {"attempt", "call"} :
         cn = [p \in {Main} |-> InBody(NewConn("db", f, DefaultRetries))]
    /\ handles = {MainAlias}
    /\ col = FreshCol
    /\ ri = NoRi
    /\ wk = NoWk

\* The store accepts every connect of a worker.
ConnectsSucceed == \A b \in DOMAIN wk : cn[b].connects = cn[b].succ

\* The pool phase, with a store that accepts every connect (an insert may
\* still fail).
NextPool ==
    /\ \/ DbPrepare
       \/ PoolStep
    /\ ConnectsSucceed'

SpecPool == InitPool /\ [][NextPool]_vars

\* workerCount = min(4, available CPUs)
WorkerCount == IF mn.cpus < 4 THEN mn.cpus ELSE 4

\* C19: at every moment of an ingestion run the number of batch inserts in
\* flight, and with it the number of connections held open by workers, is
\* at most min(4, available CPUs), however many batches there are.
C19_BoundedParallelism ==
    mn.pc # "off" =>
      /\ Cardinality(InFlight) <= WorkerCount
      /\ Cardinality(handles \ {MainAlias}) <= WorkerCount
      /\ Cardinality({b \in DOMAIN wk : InWithBody(b)}) <= WorkerCount
      /\ mn.pc = "pool" => mn.n_processes = WorkerCount

\* Five CPUs, five batches: four inserts are in flight, each inside its
\* with-block on its own connection, and the fifth batch waits.
C19_Witness ==
    /\ mn.cpus = PoolCap + 1
    /\ Len(mn.batches) = PoolCap + 1
    /\ Cardinality(InFlight) = 4
    /\ \A b \in InFlight : InWithBody(b) /\ Alias(b) \in handles
    /\ \E b \in DOMAIN wk : wk[b].st = "pending"

(***************************************************************************)
(* The index step after a failed batch                                     *)
(***************************************************************************)
\* main's `with milvus_connection("default")` statement has ended.
MainEnded == mn.pc = "left" /\ Finished(cn[Main])

\* C20: index creation and collection load are reached only if every batch
\* reported success; if at least one batch failed the run ends with an
\* error, no index is created or dropped, the collection is left not
\* loaded, and the setup connection is released when the run has ended.
C20_IndexAfterSuccess ==
    mn.pc # "off" =>
      /\ mn.pc \in {"index", "create_index", "load"} =>
           (mn.accounted /\ Failed = {})
      /\ (mn.setup # "none" /\ (col.indexes # {} \/ col.loaded)) =>
           (mn.accounted /\ Failed = {})
      /\ (mn.accounted /\ Failed # {}) =>
           /\ mn.pc = "left"
           /\ BatchesFailed
           /\ col.indexes = {} /\ ~col.loaded
           /\ MainEnded =>
                /\ cn[Main].outcome # "Normal"
                /\ MainAlias \notin handles

====
